---- MODULE Spec2Model ----
(***************************************************************************)
(* Model of hikari.internal_utilities.delegate: the DelegatedProperty      *)
(* descriptor and the delegate_to class decorator.                         *)
(*                                                                         *)
(* The state is the part of the Python heap the module reads and writes:   *)
(* the __dict__ of every class (class members, the installed               *)
(* DelegatedProperty objects and the two ledger fields                     *)
(* ___delegate_members___ / ___delegate_type_mapping___) and the __dict__  *)
(* of every instance.  Attribute lookup follows the Python data model     *)
(* (MRO walk, data / non-data descriptors, instance __dict__).            *)
(***************************************************************************)
EXTENDS Integers, Sequences, FiniteSets, TLC

VARIABLES class_dict, instance_dict, last, calls, writes

vars == <<class_dict, instance_dict, last, calls, writes>>

(***************************************************************************)
(* Bounds of the exploration.                                              *)
(***************************************************************************)
MaxCalls == 2
MaxWrites == 2
MaxInstalled == 1

(***************************************************************************)
(* Module constants.                                                       *)
(***************************************************************************)
DELEGATE_MEMBERS_FIELD == "___delegate_members___"
DELEGATE_TYPES_FIELD == "___delegate_type_mapping___"
ANNOTATIONS_FIELD == "__annotations__"
_SPECIAL_ATTRS_TO_IGNORE == {"_abc_impl"}
EMPTY_SEQUENCE == <<>>

(***************************************************************************)
(* The classes of the exploration and their method resolution order.      *)
(*   class E; class D1(E); class D2; class H(D1, D2); class C(H);          *)
(*   class K(D2); class J(H, K)                                            *)
(***************************************************************************)
Types == {"E", "D1", "D2", "H", "C", "K", "J"}

mro(cls) ==
    CASE cls = "E" -> <<"E">>
      [] cls = "D1" -> <<"D1", "E">>
      [] cls = "D2" -> <<"D2">>
      [] cls = "H" -> <<"H", "D1", "E", "D2">>
      [] cls = "C" -> <<"C", "H", "D1", "E", "D2">>
      [] cls = "K" -> <<"K", "D2">>
      [] cls = "J" -> <<"J", "H", "D1", "E", "K", "D2">>

issubclass(cls, base) == \E i \in 1..Len(mro(cls)) : mro(cls)[i] = base

MagicFields == {"f", "g"}

MemberNames == {"a", "b", "c", "x", "doThing", "hook", "cm", "_abc_impl",
                "__module__", "__tag__"}

Names == MemberNames \cup MagicFields
           \cup {ANNOTATIONS_FIELD, DELEGATE_MEMBERS_FIELD, DELEGATE_TYPES_FIELD}

(* name.startswith("__"): the first two characters of every name in use.   *)
prefix2(name) ==
    CASE name \in {"__module__", "__tag__", "__annotations__",
                   "___delegate_members___", "___delegate_type_mapping___"} -> "__"
      [] name = "_abc_impl" -> "_a"
      [] name = "doThing" -> "do"
      [] name = "hook" -> "ho"
      [] name = "cm" -> "cm"
      [] OTHER -> name

startswith_dunder(name) == prefix2(name) = "__"

(***************************************************************************)
(* Python values.                                                          *)
(***************************************************************************)
Absent == [kind |-> "absent"]
Data(v) == [kind |-> "data", v |-> v]
Function == [kind |-> "function"]
ClassMethod == [kind |-> "classmethod"]
BoundMethod == [kind |-> "method"]
Object(id) == [kind |-> "object", id |-> id]
AnnotationsDict(keys) == [kind |-> "dict", keys |-> keys]
FrozenSet(s) == [kind |-> "frozenset", members |-> s]
Tuple(t) == [kind |-> "tuple", items |-> t]

(* DelegatedProperty.__init__ *)
DelegatedProperty(magic_field, delegated_member_name) ==
    [kind |-> "DelegatedProperty", magic_field |-> magic_field,
     delegated_member_name |-> delegated_member_name]

(* inspect.isfunction(value) or inspect.ismethod(value) *)
isfunction(value) == value.kind = "function"
ismethod(value) == value.kind = "method"

_should_ignore_attribute_for_field(name, value) ==
    \/ isfunction(value)
    \/ ismethod(value)
    \/ startswith_dunder(name)
    \/ name \in _SPECIAL_ATTRS_TO_IGNORE

(***************************************************************************)
(* The class bodies as declared.                                           *)
(*   class E:      x = 1                                                   *)
(*   class D1(E):  a: int = 1;  b: int;  __tag__: str                      *)
(*                 hook: Callable = <function>;  _abc_impl = 0             *)
(*                 def doThing(self);  @classmethod def cm(cls)            *)
(*   class D2:     a = 2;  c = 3                                           *)
(*   class C(H):   a = 5                                                   *)
(***************************************************************************)
NoMembers == [n \in Names |-> Absent]

ClassBody(cls) ==
    CASE cls = "E" ->
           [NoMembers EXCEPT !["x"] = Data(1), !["__module__"] = Data(0)]
      [] cls = "D1" ->
           [NoMembers EXCEPT !["a"] = Data(1), !["doThing"] = Function,
                             !["hook"] = Function,
                             !["cm"] = ClassMethod, !["_abc_impl"] = Data(0),
                             !["__module__"] = Data(0),
                             ![ANNOTATIONS_FIELD] =
                                 AnnotationsDict({"a", "b", "hook", "__tag__"})]
      [] cls = "D2" ->
           [NoMembers EXCEPT !["a"] = Data(2), !["c"] = Data(3),
                             !["__module__"] = Data(0)]
      [] cls = "C" ->
           [NoMembers EXCEPT !["a"] = Data(5), !["__module__"] = Data(0)]
      [] OTHER ->
           [NoMembers EXCEPT !["__module__"] = Data(0)]

(***************************************************************************)
(* Attribute lookup on a class: walk the MRO, first __dict__ that has the  *)
(* name wins.                                                              *)
(***************************************************************************)
RECURSIVE mro_lookup_from(_, _, _, _)
mro_lookup_from(cd, cls, name, i) ==
    IF i > Len(mro(cls)) THEN Absent
    ELSE IF cd[mro(cls)[i]][name] # Absent THEN cd[mro(cls)[i]][name]
    ELSE mro_lookup_from(cd, cls, name, i + 1)

mro_lookup(cd, cls, name) == mro_lookup_from(cd, cls, name, 1)

(***************************************************************************)
(* Instances.  h and h0 are host instances, d1, d2 and e are delegate      *)
(* objects.  The construction logic of h has populated its delegate fields *)
(* (h.f = d1, h.g = d2) and that of d1 its own (d1.g = e); h0 is a host     *)
(* instance whose fields were never populated.                             *)
(***************************************************************************)
Instances == {"h", "h0", "d1", "d2", "e"}

type(obj) ==
    CASE obj = "h" -> "H"
      [] obj = "h0" -> "H"
      [] obj = "d1" -> "D1"
      [] obj = "d2" -> "D2"
      [] obj = "e" -> "E"

NoAttributes == [n \in Names |-> Absent]

Constructed(obj) ==
    CASE obj = "h" -> [NoAttributes EXCEPT !["f"] = Object("d1"), !["g"] = Object("d2")]
      [] obj = "d1" -> [NoAttributes EXCEPT !["g"] = Object("e")]
      [] OTHER -> NoAttributes

(* Depth of the deepest chain of delegated reads that is followed.         *)
MaxDepth == 4

Ok(value) == [raised |-> "none", value |-> value]
Raise(error) == [raised |-> error, value |-> Absent]

(* The kinds of class member that define __set__ or __delete__.  The class *)
(* DelegatedProperty defines __init__ and __get__ only.                    *)
data_descriptor_kinds == {}

(***************************************************************************)
(* getattr(obj, name) on an instance (object.__getattribute__), with       *)
(* DelegatedProperty.__get__(instance, owner) for a forwarded name:        *)
(*     delegated_object = getattr(instance, self.magic_field)              *)
(*     return getattr(delegated_object, self.delegated_member_name)        *)
(***************************************************************************)
RECURSIVE instance_getattr(_, _, _, _, _), DelegatedProperty__get__(_, _, _, _, _)
(* __get__ without the test for a missing instance: getattr(None, ...)     *)
(* raises.                                                                 *)
DelegatedProperty__get__unconditional(cd, idict, self, instance, depth) ==
    IF instance = "None" THEN Raise("AttributeError")
    ELSE LET delegated_object ==
                 instance_getattr(cd, idict, instance, self.magic_field, depth)
         IN  IF delegated_object.raised # "none" THEN delegated_object
             ELSE IF delegated_object.value.kind # "object" THEN Raise("AttributeError")
             ELSE instance_getattr(cd, idict, delegated_object.value.id,
                                   self.delegated_member_name, depth)

DelegatedProperty__get__(cd, idict, self, instance, depth) ==
    IF instance # "None"
    THEN LET delegated_object ==
                 instance_getattr(cd, idict, instance, self.magic_field, depth)
         IN  IF delegated_object.raised # "none" THEN delegated_object
             ELSE IF delegated_object.value.kind # "object" THEN Raise("AttributeError")
             ELSE instance_getattr(cd, idict, delegated_object.value.id,
                                   self.delegated_member_name, depth)
    ELSE Ok(self)

instance_getattr(cd, idict, obj, name, depth) ==
    LET found == mro_lookup(cd, type(obj), name)
    IN  IF depth = 0 THEN Raise("RecursionError")
        ELSE IF /\ idict[obj][name] # Absent
                   /\ ~(found # Absent /\ found.kind \in data_descriptor_kinds)
        THEN Ok(idict[obj][name])
        ELSE IF found = Absent THEN Raise("AttributeError")
        ELSE IF found.kind = "DelegatedProperty"
        THEN DelegatedProperty__get__(cd, idict, found, obj, depth - 1)
        ELSE IF found.kind \in {"function", "classmethod"} THEN Ok(BoundMethod)
        ELSE Ok(found)

getattr(cd, idict, obj, name) == instance_getattr(cd, idict, obj, name, MaxDepth)

NoInstances == [o \in Instances |-> NoAttributes]

(* getattr(cls, name, default) on a class object (type.__getattribute__):  *)
(* a member that defines __get__ is asked with instance None.              *)
type_getattr(cd, cls, name, default) ==
    LET found == mro_lookup(cd, cls, name)
    IN  IF found = Absent THEN default
        ELSE IF found.kind = "DelegatedProperty"
        THEN DelegatedProperty__get__(cd, NoInstances, found, "None", MaxDepth).value
        ELSE IF found.kind = "classmethod" THEN BoundMethod
        ELSE found

(***************************************************************************)
(* The ledger as read by getattr on the class.                             *)
(***************************************************************************)
getBindings(cd, cls) ==
    LET v == type_getattr(cd, cls, DELEGATE_TYPES_FIELD, Tuple(EMPTY_SEQUENCE))
    IN  v.items

getForwardedNames(cd, cls) ==
    LET v == type_getattr(cd, cls, DELEGATE_MEMBERS_FIELD, FrozenSet({}))
    IN  v.members

(***************************************************************************)
(* Classification of the delegate type (lines 91-93).                      *)
(***************************************************************************)
dict_fields(cd, delegate_type) ==
    {k \in Names : /\ cd[delegate_type][k] # Absent
                   /\ ~_should_ignore_attribute_for_field(k, cd[delegate_type][k])}

(* getattr(delegate_type, "__annotations__", ...) is a class attribute      *)
(* lookup: a class that declares no annotation of its own yields those of  *)
(* the first class of its MRO that declares some.                          *)
annotation_fields(cd, delegate_type) ==
    LET v == type_getattr(cd, delegate_type, ANNOTATIONS_FIELD, AnnotationsDict({}))
    IN  v.keys

targets(cd, delegate_type) ==
    dict_fields(cd, delegate_type) \cup annotation_fields(cd, delegate_type)

(***************************************************************************)
(* assertions.assert_subclasses(cls, delegate_type)                        *)
(***************************************************************************)
assert_subclasses(cls, base) ==
    IF issubclass(cls, base) THEN "none" ELSE "ConfigurationError"

(***************************************************************************)
(* delegate_to(delegate_type, magic_field)(cls): the decorator body.       *)
(* Yields the exception raised (or "none"), the class dictionaries after   *)
(* the call and the returned class.                                        *)
(***************************************************************************)
(* An install that keeps the members the class body declares already.      *)
install_keeping_own(d, names, magic_field) ==
    [n \in Names |-> IF n \in names /\ d[n] = Absent
                     THEN DelegatedProperty(magic_field, n) ELSE d[n]]

install(d, names, magic_field) ==
    [n \in Names |-> IF n \in names THEN DelegatedProperty(magic_field, n) ELSE d[n]]

(* The names of this call only, without those recorded before.            *)
merged_members_new_only(cd, cls, delegated_members) == delegated_members

(* delegated_members |= getattr(cls, DELEGATE_MEMBERS_FIELD, set())        *)
merged_members(cd, cls, delegated_members) ==
    delegated_members \cup getForwardedNames(cd, cls)

(* the tuple of delegated_types followed by (magic_field, delegate_type)   *)
(* The new pair replacing what the class read, instead of layering on it.  *)
appended_types_replacing(delegated_types, magic_field, delegate_type) ==
    <<<<magic_field, delegate_type>>>>

(* The new pair put in front of the recorded ones.                         *)
appended_types_prepending(delegated_types, magic_field, delegate_type) ==
    <<<<magic_field, delegate_type>>>> \o delegated_types

appended_types(delegated_types, magic_field, delegate_type) ==
    Append(delegated_types, <<magic_field, delegate_type>>)

(* The delegate type returned in place of the host.                        *)
returned_delegate_type(cls, delegate_type) == delegate_type

(* return cls                                                              *)
returned_class(cls, delegate_type) == cls

(* A classification that uses the annotations of the delegate type up: the *)
(* call leaves delegate_type without them.                                 *)
decorator_consuming_annotations(cd, cls, delegate_type, magic_field) ==
    IF assert_subclasses(cls, delegate_type) # "none"
    THEN [raised |-> assert_subclasses(cls, delegate_type), class_dict |-> cd,
          returned |-> "None"]
    ELSE
      LET delegated_types == getBindings(cd, cls)
          names == targets(cd, delegate_type)
          cd0 == [cd EXCEPT ![delegate_type][ANNOTATIONS_FIELD] = AnnotationsDict({})]
          cd1 == [cd0 EXCEPT ![cls] = install(cd0[cls], names, magic_field)]
          delegated_members == merged_members(cd1, cls, names)
          cd2 == [cd1 EXCEPT ![cls][DELEGATE_MEMBERS_FIELD] = FrozenSet(delegated_members)]
          cd3 == [cd2 EXCEPT ![cls][DELEGATE_TYPES_FIELD] =
                      Tuple(appended_types(delegated_types, magic_field, delegate_type))]
      IN  [raised |-> "none", class_dict |-> cd3,
           returned |-> returned_class(cls, delegate_type)]

(* The ledger kept in one place for all hosts of a delegate type: written  *)
(* on delegate_type instead of cls.                                        *)
decorator_ledger_on_delegate(cd, cls, delegate_type, magic_field) ==
    IF assert_subclasses(cls, delegate_type) # "none"
    THEN [raised |-> assert_subclasses(cls, delegate_type), class_dict |-> cd,
          returned |-> "None"]
    ELSE
      LET delegated_types == getBindings(cd, cls)
          names == targets(cd, delegate_type)
          cd1 == [cd EXCEPT ![cls] = install(cd[cls], names, magic_field)]
          delegated_members == merged_members(cd1, cls, names)
          cd2 == [cd1 EXCEPT ![delegate_type][DELEGATE_MEMBERS_FIELD] =
                      FrozenSet(delegated_members)]
          cd3 == [cd2 EXCEPT ![delegate_type][DELEGATE_TYPES_FIELD] =
                      Tuple(appended_types(delegated_types, magic_field, delegate_type))]
      IN  [raised |-> "none", class_dict |-> cd3,
           returned |-> returned_class(cls, delegate_type)]

(* The assertion made after the class has been changed.                    *)
decorator_asserting_last(cd, cls, delegate_type, magic_field) ==
    LET delegated_types == getBindings(cd, cls)
        names == targets(cd, delegate_type)
        cd1 == [cd EXCEPT ![cls] = install(cd[cls], names, magic_field)]
        delegated_members == merged_members(cd1, cls, names)
        cd2 == [cd1 EXCEPT ![cls][DELEGATE_MEMBERS_FIELD] = FrozenSet(delegated_members)]
        cd3 == [cd2 EXCEPT ![cls][DELEGATE_TYPES_FIELD] =
                    Tuple(appended_types(delegated_types, magic_field, delegate_type))]
    IN  IF assert_subclasses(cls, delegate_type) # "none"
        THEN [raised |-> assert_subclasses(cls, delegate_type), class_dict |-> cd3,
              returned |-> "None"]
        ELSE [raised |-> "none", class_dict |-> cd3,
              returned |-> returned_class(cls, delegate_type)]

decorator(cd, cls, delegate_type, magic_field) ==
    IF assert_subclasses(cls, delegate_type) # "none"
    THEN [raised |-> assert_subclasses(cls, delegate_type), class_dict |-> cd,
          returned |-> "None"]
    ELSE
      LET delegated_types == getBindings(cd, cls)
          names == targets(cd, delegate_type)
          cd1 == [cd EXCEPT ![cls] = install(cd[cls], names, magic_field)]
          delegated_members == merged_members(cd1, cls, names)
          cd2 == [cd1 EXCEPT ![cls][DELEGATE_MEMBERS_FIELD] = FrozenSet(delegated_members)]
          cd3 == [cd2 EXCEPT ![cls][DELEGATE_TYPES_FIELD] =
                      Tuple(appended_types(delegated_types, magic_field, delegate_type))]
      IN  [raised |-> "none", class_dict |-> cd3,
           returned |-> returned_class(cls, delegate_type)]

(***************************************************************************)
(* The decorator body when a setattr(cls, name, delegate) of the loop      *)
(* (line 98) raises, the class refusing the assignment, after the names in *)
(* installed have been set: the call ends there with the exception, lines  *)
(* 102-105 are not reached.  The loop runs over a set, so any part of the  *)
(* targets may have been installed by then.                                *)
(***************************************************************************)
(* The ledger written before the loop instead of after it.                 *)
decorator_interrupted_ledger_first(cd, cls, delegate_type, magic_field, installed) ==
    LET delegated_types == getBindings(cd, cls)
        names == targets(cd, delegate_type)
        delegated_members == merged_members(cd, cls, names)
        cd1 == [cd EXCEPT ![cls][DELEGATE_MEMBERS_FIELD] = FrozenSet(delegated_members)]
        cd2 == [cd1 EXCEPT ![cls][DELEGATE_TYPES_FIELD] =
                    Tuple(appended_types(delegated_types, magic_field, delegate_type))]
        cd3 == [cd2 EXCEPT ![cls] = install(cd2[cls], installed, magic_field)]
    IN  [raised |-> "TypeError", class_dict |-> cd3, returned |-> "None"]

decorator_interrupted(cd, cls, delegate_type, magic_field, installed) ==
    LET cd1 == [cd EXCEPT ![cls] = install(cd[cls], installed, magic_field)]
    IN  [raised |-> "TypeError", class_dict |-> cd1, returned |-> "None"]

(***************************************************************************)
(* setattr(obj, name, value) on an instance (object.__setattr__): a data   *)
(* descriptor on the class takes the write, anything else is stored in the *)
(* instance __dict__.                                                      *)
(***************************************************************************)
setattr(cd, idict, obj, name, value) ==
    LET found == mro_lookup(cd, type(obj), name)
    IN  IF found # Absent /\ found.kind \in data_descriptor_kinds
        THEN [raised |-> "NotImplementedError", instance_dict |-> idict]
        ELSE [raised |-> "none",
              instance_dict |-> [idict EXCEPT ![obj][name] = value]]

(***************************************************************************)
(* Initial state: the classes as declared, instances with empty __dict__.  *)
(***************************************************************************)
NoCall == [op |-> "none", raised |-> "none"]

Init ==
    /\ class_dict = [t \in Types |-> ClassBody(t)]
    /\ instance_dict = [o \in Instances |-> Constructed(o)]
    /\ last = NoCall
    /\ calls = 0
    /\ writes = 0

(***************************************************************************)
(* applyDelegation: delegate_to(delegate_type, magic_field)(cls)           *)
(***************************************************************************)
ApplyDelegation(cls, delegate_type, magic_field) ==
    /\ calls < MaxCalls
    /\ LET r == decorator(class_dict, cls, delegate_type, magic_field)
       IN  /\ class_dict' = r.class_dict
           /\ last' = [op |-> "delegate_to", raised |-> r.raised, cls |-> cls,
                       delegate_type |-> delegate_type, magic_field |-> magic_field,
                       returned |-> r.returned]
    /\ calls' = calls + 1
    /\ UNCHANGED <<instance_dict, writes>>

Apply == \E cls \in Types, delegate_type \in Types, magic_field \in MagicFields :
            ApplyDelegation(cls, delegate_type, magic_field)

(* The applications to a class of some instance that pass the subclass     *)
(* assertion (the failing calls are explored by Apply).                    *)
InstanceTypes == {"H", "D1", "D2", "E"}

ApplyUse == \E cls \in InstanceTypes, delegate_type \in InstanceTypes,
               magic_field \in MagicFields :
               /\ issubclass(cls, delegate_type)
               /\ ApplyDelegation(cls, delegate_type, magic_field)

(***************************************************************************)
(* A call that passes the assertion and whose loop is interrupted by a     *)
(* setattr that raises, after at most MaxInstalled accessors were set.     *)
(***************************************************************************)
ApplyInterrupted(cls, delegate_type, magic_field, installed) ==
    /\ calls < MaxCalls
    /\ issubclass(cls, delegate_type)
    /\ installed # targets(class_dict, delegate_type)
    /\ LET r == decorator_interrupted(class_dict, cls, delegate_type, magic_field,
                                      installed)
       IN  /\ class_dict' = r.class_dict
           /\ last' = [op |-> "delegate_to", raised |-> r.raised, cls |-> cls,
                       delegate_type |-> delegate_type, magic_field |-> magic_field,
                       returned |-> r.returned]
    /\ calls' = calls + 1
    /\ UNCHANGED <<instance_dict, writes>>

FailHosts == {"H", "K"}

Interrupt == \E cls \in FailHosts, delegate_type \in InstanceTypes,
                magic_field \in MagicFields :
                \E installed \in SUBSET targets(class_dict, delegate_type) :
                   /\ Cardinality(installed) <= MaxInstalled
                   /\ ApplyInterrupted(cls, delegate_type, magic_field, installed)

(* Every call, failing ones included, on one of the hosts.                 *)
ApplyHosts == \E cls \in FailHosts, delegate_type \in InstanceTypes,
                 magic_field \in MagicFields :
                 ApplyDelegation(cls, delegate_type, magic_field)

(***************************************************************************)
(* An assignment obj.name = value by the code that uses the classes: the   *)
(* host's construction logic populating or rebinding a delegate field, a   *)
(* change of a delegate's member, an assignment to a name of the host.     *)
(***************************************************************************)
Assignments ==
    {<<"h", "f", Object("d2")>>, <<"h", "a", Data(7)>>,
     <<"d1", "a", Data(8)>>}

SetAttr(obj, name, value) ==
    /\ writes < MaxWrites
    /\ LET r == setattr(class_dict, instance_dict, obj, name, value)
       IN  /\ instance_dict' = r.instance_dict
           /\ last' = [op |-> "setattr", raised |-> r.raised, instance |-> obj,
                       name |-> name, value |-> value]
    /\ writes' = writes + 1
    /\ UNCHANGED <<class_dict, calls>>

Assign == \E w \in Assignments : SetAttr(w[1], w[2], w[3])

(***************************************************************************)
(* A read obj.name: getattr(obj, name), through DelegatedProperty.__get__  *)
(* for a forwarded name.  __get__ (lines 51-56) assigns nothing: the read  *)
(* yields its outcome and leaves classes and instances alone.              *)
(***************************************************************************)
GetAttr(obj, name) ==
    /\ LET r == getattr(class_dict, instance_dict, obj, name)
       IN  last' = [op |-> "getattr", raised |-> r.raised, instance |-> obj,
                    name |-> name, value |-> r.value]
    /\ UNCHANGED <<class_dict, instance_dict, calls, writes>>

ReadInstances == {"h", "h0"}

ReadNames == {"a", "x"}

Read == \E obj \in ReadInstances, name \in ReadNames : GetAttr(obj, name)

(* The assignments of the use, and h0 given the delegate object that h     *)
(* holds at first.                                                         *)
SharedAssignments == Assignments \cup {<<"h0", "f", Object("d1")>>}

AssignShared == \E w \in SharedAssignments : SetAttr(w[1], w[2], w[3])

(***************************************************************************)
(* Specifications.  Spec: the classes being decorated (definition time).   *)
(* SpecUse: decoration of the instances' classes interleaved with the use  *)
(* of the instances.                                                       *)
(***************************************************************************)
Next == Apply

Spec == Init /\ [][Next]_vars

NextUse == ApplyUse \/ Assign

SpecUse == Init /\ [][NextUse]_vars

(* SpecRead: the use of two instances of one host, reads included.         *)
NextRead == ApplyUse \/ AssignShared \/ Read

SpecRead == Init /\ [][NextRead]_vars

(* SpecFail: calls that succeed, fail the assertion or are interrupted.    *)
NextFail == ApplyHosts \/ Interrupt

SpecFail == Init /\ [][NextFail]_vars

(***************************************************************************)
(* The interface the properties are stated with.                           *)
(***************************************************************************)
eligible(delegate_type) == targets(class_dict, delegate_type)

forwardedNames(cls) == getForwardedNames(class_dict, cls)

bindings(cls) == getBindings(class_dict, cls)

(* The member that reading cls.name resolves to.                           *)
resolved(cls, name) == mro_lookup(class_dict, cls, name)

accessor_installed(cls, name) == resolved(cls, name).kind = "DelegatedProperty"

(* callable(getattr(cls, name)) *)
member_callable(cls, name) ==
    type_getattr(class_dict, cls, name, Absent).kind \in {"function", "method"}

read(obj, name) == getattr(class_dict, instance_dict, obj, name)

holds_object(obj, magic_field) == instance_dict[obj][magic_field].kind = "object"

applied == last.op = "delegate_to" /\ last.raised = "none"

(* A step that is a call of the decorator: last' holds its arguments.      *)
ApplyStep == calls' = calls + 1

(* A step that is an assignment: last' holds its arguments.                *)
AssignStep == writes' = writes + 1

(***************************************************************************)
(* C1  Forwarding read: for every binding (f, D) of a host type, every     *)
(* eligible member m of D whose accessor on the host is the one bound to   *)
(* (f, m), and every instance h of the host whose field f holds an object  *)
(* d, reading h.m gives what reading d.m gives.                            *)
(***************************************************************************)
C1_ForwardingRead ==
    \A h \in Instances : \A i \in DOMAIN bindings(type(h)) :
        LET f == bindings(type(h))[i][1]
            D == bindings(type(h))[i][2]
        IN  \A m \in eligible(D) :
                (/\ resolved(type(h), m) = DelegatedProperty(f, m)
                 /\ holds_object(h, f))
                => read(h, m) = read(instance_dict[h][f].id, m)

(***************************************************************************)
(* C2  Read-only law: an assignment h.m = v to a name m that the type of h *)
(* forwards fails with the "not implemented" error, changes no instance    *)
(* __dict__ (neither the host's nor the delegate's) and so leaves what a   *)
(* later read of h.m returns as it was.                                    *)
(***************************************************************************)
C2_ReadOnlyLaw ==
    [][(AssignStep /\ accessor_installed(type(last'.instance), last'.name))
          => /\ last'.raised = "NotImplementedError"
             /\ instance_dict' = instance_dict
             /\ getattr(class_dict', instance_dict', last'.instance, last'.name)
                  = read(last'.instance, last'.name)]_vars

(***************************************************************************)
(* C3  A call whose host is not a subclass of the delegate type raises     *)
(* ConfigurationError and leaves every class as it was: the bindings, the  *)
(* forwarded names and the installed members of the host are unchanged.    *)
(***************************************************************************)
C3_FailedPreconditionLeavesHost ==
    [][(ApplyStep /\ ~issubclass(last'.cls, last'.delegate_type))
          => /\ last'.raised = "ConfigurationError"
             /\ getBindings(class_dict', last'.cls) = bindings(last'.cls)
             /\ getForwardedNames(class_dict', last'.cls) = forwardedNames(last'.cls)
             /\ class_dict'[last'.cls] = class_dict[last'.cls]
             /\ class_dict' = class_dict]_vars

(* A failed call on a host that already carries a ledger.                  *)
C3_Witness ==
    /\ last.op = "delegate_to"
    /\ last.raised = "ConfigurationError"
    /\ ~issubclass(last.cls, last.delegate_type)
    /\ bindings(last.cls) # <<>>
    /\ forwardedNames(last.cls) # {}

(* Every binding that cls reads was applied to cls itself: no proper       *)
(* ancestor of cls carries a ledger.                                       *)
sole_owner(cls) ==
    \A i \in 2..Len(mro(cls)) : class_dict[mro(cls)[i]][DELEGATE_TYPES_FIELD] = Absent

(* The names eligible on every delegate type bound on cls, as they are now *)
eligible_of_bindings(cls) ==
    UNION {eligible(bindings(cls)[i][2]) : i \in DOMAIN bindings(cls)}

(***************************************************************************)
(* C4  Layering: right after the second of two applications (f1, D1) then  *)
(* (f2, D2) to a host type, D1 # D2 with disjoint eligible names, the      *)
(* forwarded names are eligible(D1) \cup eligible(D2), the accessors of    *)
(* both layers are installed, and for every instance h of the host every   *)
(* m1 of D1 reads through h.f1 and every m2 of D2 reads through h.f2.      *)
(***************************************************************************)
C4_Layering ==
    \A cls \in Types :
        (/\ applied /\ last.cls = cls
         /\ sole_owner(cls) /\ Len(bindings(cls)) = 2
         /\ bindings(cls)[1][2] # bindings(cls)[2][2]
         /\ eligible(bindings(cls)[1][2]) \cap eligible(bindings(cls)[2][2]) = {})
        => LET f1 == bindings(cls)[1][1]
               D1 == bindings(cls)[1][2]
               f2 == bindings(cls)[2][1]
               D2 == bindings(cls)[2][2]
           IN  /\ forwardedNames(cls) = eligible(D1) \cup eligible(D2)
               /\ \A m1 \in eligible(D1) : resolved(cls, m1) = DelegatedProperty(f1, m1)
               /\ \A m2 \in eligible(D2) : resolved(cls, m2) = DelegatedProperty(f2, m2)
               /\ \A h \in Instances :
                     type(h) = cls =>
                       /\ \A m1 \in eligible(D1) :
                             holds_object(h, f1)
                               => read(h, m1) = read(instance_dict[h][f1].id, m1)
                       /\ \A m2 \in eligible(D2) :
                             holds_object(h, f2)
                               => read(h, m2) = read(instance_dict[h][f2].id, m2)

(***************************************************************************)
(* C5 (as stated)  In every reachable state the forwarded names of a host  *)
(* type are exactly the union of eligible(D) over its bindings (f, D).     *)
(***************************************************************************)
C5_LedgerUnion ==
    \A cls \in Types : forwardedNames(cls) = eligible_of_bindings(cls)

(***************************************************************************)
(* C5 (amended)  No class has a ledger before the first call.  Every       *)
(* successful call on a host makes its forwarded names the previous ones   *)
(* united with the names eligible on the delegate type at that call and    *)
(* its bindings the previous ones followed by (f, D), and changes the      *)
(* ledger of no class that is not a subclass of the host; a failed call    *)
(* changes no ledger.  So the forwarded names are the union, over the      *)
(* bindings, of the names classified eligible when each was applied; they  *)
(* are always contained in the union of the eligible(D) as they are now.   *)
(***************************************************************************)
C5_LedgerUnionAsClassified ==
    /\ \A cls \in Types : forwardedNames(cls) = {} /\ bindings(cls) = <<>>
    /\ [](\A cls \in Types : forwardedNames(cls) \subseteq eligible_of_bindings(cls))
    /\ [][ApplyStep =>
            \A cls \in Types :
              IF last'.raised = "none" /\ cls = last'.cls
              THEN /\ getForwardedNames(class_dict', cls)
                        = forwardedNames(cls) \cup eligible(last'.delegate_type)
                   /\ getBindings(class_dict', cls)
                        = Append(bindings(cls), <<last'.magic_field, last'.delegate_type>>)
              ELSE (last'.raised # "none" \/ ~issubclass(cls, last'.cls))
                     => /\ getForwardedNames(class_dict', cls) = forwardedNames(cls)
                        /\ getBindings(class_dict', cls) = bindings(cls)]_vars

(* A host that inherits the ledger of a decorated ancestor and has just    *)
(* had a binding of its own applied on top of it.                          *)
C5_Witness ==
    /\ applied
    /\ ~sole_owner(last.cls)
    /\ Len(bindings(last.cls)) >= 2
    /\ forwardedNames(last.cls) # {}
    /\ eligible(last.delegate_type) # {}
    /\ ~(forwardedNames(last.cls) \subseteq eligible(last.delegate_type))

(***************************************************************************)
(* C6  Every name in the forwarded names of a class resolves on that class *)
(* to an installed forwarding accessor.                                    *)
(***************************************************************************)
C6_AccessorPresence ==
    \A cls \in Types : \A name \in forwardedNames(cls) : accessor_installed(cls, name)

(***************************************************************************)
(* C7  Exclusion: no eligible member of a delegate type is callable, has a *)
(* name starting with "__", or is named in the ignore-list, whether it is  *)
(* declared with a class-level value or only by an annotation.             *)
(***************************************************************************)
C7_Exclusion ==
    \A D \in Types : \A m \in eligible(D) :
        /\ ~member_callable(D, m)
        /\ ~startswith_dunder(m)
        /\ m \notin _SPECIAL_ATTRS_TO_IGNORE

(***************************************************************************)
(* C8  Type-level access: where a class resolves a name to a forwarding    *)
(* accessor, reading the name on the class (no instance) raises nothing    *)
(* and returns that accessor object itself, whatever the instances hold;   *)
(* the accessor is bound to the name it is installed under and to the      *)
(* field of a binding of the class it is installed on.                     *)
(***************************************************************************)
C8_TypeLevelAccess ==
    \A cls \in Types : \A name \in Names :
        accessor_installed(cls, name) =>
          /\ DelegatedProperty__get__(class_dict, instance_dict, resolved(cls, name),
                                      "None", MaxDepth) = Ok(resolved(cls, name))
          /\ type_getattr(class_dict, cls, name, Absent) = resolved(cls, name)
          /\ resolved(cls, name).delegated_member_name = name
          /\ \E i \in 1..Len(mro(cls)) :
                /\ class_dict[mro(cls)[i]][name] = resolved(cls, name)
                /\ \E j \in DOMAIN bindings(mro(cls)[i]) :
                      bindings(mro(cls)[i])[j][1] = resolved(cls, name).magic_field

(* A host with an accessor of its own and an instance whose delegate field *)
(* is not populated.                                                       *)
C8_Witness ==
    /\ applied
    /\ \E name \in MemberNames : class_dict[last.cls][name].kind = "DelegatedProperty"
    /\ \E h \in Instances : type(h) = last.cls /\ ~holds_object(h, last.magic_field)

(***************************************************************************)
(* C9  Collision, last write wins: right after (f2, D2) is applied to a    *)
(* host that (f1, D1) was applied to before, every name m eligible on both *)
(* D1 and D2 has the accessor bound to f2, is in the forwarded names, both *)
(* bindings are in the bindings of the host, and every instance h of the   *)
(* host whose f2 holds an object reads h.m as h.f2.m.                      *)
(***************************************************************************)
C9_LastWriteWins ==
    \A cls \in Types :
        (applied /\ last.cls = cls /\ sole_owner(cls) /\ Len(bindings(cls)) >= 2)
        => LET n == Len(bindings(cls))
               f2 == bindings(cls)[n][1]
               D2 == bindings(cls)[n][2]
           IN  /\ f2 = last.magic_field /\ D2 = last.delegate_type
               /\ \A i \in 1..(n - 1) :
                    \A m \in eligible(bindings(cls)[i][2]) \cap eligible(D2) :
                      /\ resolved(cls, m) = DelegatedProperty(f2, m)
                      /\ m \in forwardedNames(cls)
                      /\ \A h \in Instances :
                            (type(h) = cls /\ holds_object(h, f2))
                              => read(h, m) = read(instance_dict[h][f2].id, m)

(***************************************************************************)
(* C10  A successful call returns the host class it was given, and that    *)
(* class is the one that now carries the new binding, last in its          *)
(* bindings, so that a further application stacks on the result.           *)
(***************************************************************************)
C10_ReturnsHost ==
    applied =>
      /\ last.returned = last.cls
      /\ bindings(last.returned) # <<>>
      /\ bindings(last.returned)[Len(bindings(last.returned))]
           = <<last.magic_field, last.delegate_type>>
      /\ class_dict[last.returned][DELEGATE_TYPES_FIELD] # Absent

(* A second application stacked on the class the first one returned.       *)
C10_Witness ==
    /\ applied
    /\ sole_owner(last.cls)
    /\ Len(bindings(last.cls)) = 2
    /\ last.cls # last.delegate_type

(***************************************************************************)
(* C11: the ledger update is all-or-nothing.  A call that fails, at the    *)
(* assertion or at a setattr of the loop with only part of the accessors   *)
(* installed, leaves the bindings and the forwarded names of every class   *)
(* as they were; a call that writes the ledger has installed the accessor  *)
(* of every classified name on the host before.                            *)
(***************************************************************************)
C11_AllOrNothingLedger ==
    [][ApplyStep
          => /\ last'.raised # "none"
                  => \A cls \in Types :
                        /\ getBindings(class_dict', cls) = bindings(cls)
                        /\ getForwardedNames(class_dict', cls) = forwardedNames(cls)
             /\ last'.raised = "none"
                  => \A name \in targets(class_dict, last'.delegate_type) :
                        class_dict'[last'.cls][name]
                            = DelegatedProperty(last'.magic_field, name)]_vars

(* A call interrupted after an accessor was installed that the ledger of   *)
(* the host does not name.                                                 *)
C11_Witness ==
    /\ last.op = "delegate_to"
    /\ last.raised = "TypeError"
    /\ \E name \in Names :
          /\ class_dict[last.cls][name] = DelegatedProperty(last.magic_field, name)
          /\ name \notin forwardedNames(last.cls)

(* cls carries ledger fields of its own, set by a call on cls itself.      *)
decorated(cls) == class_dict[cls][DELEGATE_TYPES_FIELD] # Absent

(* The proper ancestors of cls, in the order of its MRO.                   *)
ancestors(cls) == {mro(cls)[i] : i \in 2..Len(mro(cls))}

(* P is the decorated ancestor that cls, not decorated itself, reads its   *)
(* ledger from: the first class of the MRO of cls that carries one.        *)
inherits_ledger_of(cls, P) ==
    /\ ~decorated(cls)
    /\ \E i \in 2..Len(mro(cls)) :
          /\ mro(cls)[i] = P
          /\ decorated(P)
          /\ \A j \in 2..(i - 1) : ~decorated(mro(cls)[j])

(***************************************************************************)
(* C12: each type owns its ledger.  A successful call on a host C that     *)
(* descends from a decorated host P leaves the bindings and the forwarded  *)
(* names of every decorated ancestor unchanged; C, reading P's ledger      *)
(* until then, gets one of its own whose bindings are P's followed by the  *)
(* new binding and whose forwarded names are P's united with the names     *)
(* classified on the delegate type.                                        *)
(***************************************************************************)
C12_PerTypeOwnership ==
    [][(ApplyStep /\ last'.raised = "none")
          => \A P \in ancestors(last'.cls) :
                decorated(P)
                  => /\ getBindings(class_dict', P) = bindings(P)
                     /\ getForwardedNames(class_dict', P) = forwardedNames(P)
                     /\ class_dict'[P] = class_dict[P]
                     /\ inherits_ledger_of(last'.cls, P)
                          => /\ getBindings(class_dict', last'.cls)
                                  = Append(bindings(P),
                                           <<last'.magic_field, last'.delegate_type>>)
                             /\ getForwardedNames(class_dict', last'.cls)
                                  = forwardedNames(P) \cup eligible(last'.delegate_type)
                             /\ class_dict'[last'.cls][DELEGATE_TYPES_FIELD] # Absent]_vars

(* C was decorated after its parent H: C's own ledger holds H's binding    *)
(* and then its own, H's ledger holds one binding still.                   *)
C12_Witness ==
    /\ last.op = "delegate_to"
    /\ last.raised = "none"
    /\ last.cls = "C"
    /\ decorated("C")
    /\ decorated("H")
    /\ Len(bindings("H")) = 1
    /\ bindings("C") = Append(bindings("H"), <<last.magic_field, last.delegate_type>>)
    /\ forwardedNames("H") # {}
    /\ forwardedNames("H") \subseteq forwardedNames("C")

(* The pairs of a tuple of bindings, as a set.                             *)
pairs(t) == {t[i] : i \in DOMAIN t}

(***************************************************************************)
(* C13: ancestry merge.  For a type with two distinct decorated ancestors  *)
(* P1 and P2, the bindings read on the type contain the bindings of both   *)
(* and the forwarded names read on it contain the forwarded names of both. *)
(***************************************************************************)
C13_AncestryMerge ==
    \A cls \in Types :
       \A P1 \in ancestors(cls), P2 \in ancestors(cls) :
          (P1 # P2 /\ decorated(P1) /\ decorated(P2))
             => /\ pairs(bindings(P1)) \cup pairs(bindings(P2)) \subseteq pairs(bindings(cls))
                /\ forwardedNames(P1) \cup forwardedNames(P2) \subseteq forwardedNames(cls)

(* obj neither stores name itself nor finds it on its class.               *)
lacks(obj, name) ==
    /\ instance_dict[obj][name] = Absent
    /\ resolved(type(obj), name) = Absent

(***************************************************************************)
(* C14: a missing delegate shows at access time only.  A call installs the *)
(* accessors whatever the instances hold; reading a name that has an       *)
(* accessor (f, m) on an object whose field f is unset, or whose field f   *)
(* holds an object without a member m, raises AttributeError, and any      *)
(* error of the two lookups reaches the reader as it was raised.           *)
(***************************************************************************)
C14_MissingDelegateAtAccess ==
    \A obj \in Instances, name \in Names :
       LET accessor == resolved(type(obj), name)
       IN  accessor.kind = "DelegatedProperty"
             => LET field == read(obj, accessor.magic_field)
                    result == read(obj, name)
                IN  /\ lacks(obj, accessor.magic_field) => field = Raise("AttributeError")
                    /\ field.raised # "none" => result = field
                    /\ (field.raised = "none" /\ field.value.kind = "object")
                         => LET member == read(field.value.id,
                                               accessor.delegated_member_name)
                            IN  /\ lacks(field.value.id, accessor.delegated_member_name)
                                     => member = Raise("AttributeError")
                                /\ member.raised # "none" => result = member

(***************************************************************************)
(* C15: classification is idempotent and leaves the delegate type alone.   *)
(* A call with delegate type D, failed or not, leaves the names classified *)
(* on D as they were, so classifying D again gives the same set; D's own   *)
(* members change only when D is the host of the call as well.             *)
(***************************************************************************)
C15_ClassificationIdempotent ==
    [][ApplyStep
          => /\ targets(class_dict', last'.delegate_type) = eligible(last'.delegate_type)
             /\ last'.cls # last'.delegate_type
                  => class_dict'[last'.delegate_type] = class_dict[last'.delegate_type]]_vars

(* D1 was the delegate type of two successful calls on H, and D1 with its  *)
(* annotated and unannotated members classifies as it did at the start.    *)
C15_Witness ==
    /\ applied
    /\ last.cls = "H"
    /\ Len(bindings("H")) = 2
    /\ \A i \in 1..2 : bindings("H")[i][2] = "D1"
    /\ eligible("D1") = targets([t \in Types |-> ClassBody(t)], "D1")
    /\ eligible("D1") # {}

(***************************************************************************)
(* C16: intentional shadowing.  A call on a host that is a subtype of the  *)
(* delegate type raises nothing, and every classified name that the host   *)
(* resolved before the call, to a member of its own body or an inherited   *)
(* one, is afterwards the accessor (magic_field, name) in the host's own   *)
(* dictionary: the earlier member is overwritten.                          *)
(***************************************************************************)
C16_IntentionalShadowing ==
    [][(ApplyStep /\ issubclass(last'.cls, last'.delegate_type))
          => /\ last'.raised = "none"
             /\ \A name \in eligible(last'.delegate_type) :
                   resolved(last'.cls, name) # Absent
                     => /\ class_dict'[last'.cls][name]
                              = DelegatedProperty(last'.magic_field, name)
                        /\ mro_lookup(class_dict', last'.cls, name)
                              = DelegatedProperty(last'.magic_field, name)]_vars

(* H inherited a from D1 and C declares a in its own body; a was           *)
(* classified on the delegate types and is an accessor in both classes'    *)
(* own dictionaries now, the last call being the one on C.                 *)
C16_Witness ==
    /\ applied
    /\ last.cls = "C"
    /\ ClassBody("C")["a"] = Data(5)
    /\ class_dict["C"]["a"] = DelegatedProperty(last.magic_field, "a")
    /\ ClassBody("H")["a"] = Absent
    /\ mro_lookup([t \in Types |-> ClassBody(t)], "H", "a") = Data(1)
    /\ class_dict["H"]["a"].kind = "DelegatedProperty"

(***************************************************************************)
(* C17: the ledger is append-only.  A successful call on a host makes its  *)
(* bindings the ones it read before followed by exactly the new pair, also *)
(* when that pair is recorded already, and its forwarded names keep every  *)
(* name; the ledger of a decorated class changes by calls on that class    *)
(* only, so its earlier bindings are never removed, reordered or replaced. *)
(***************************************************************************)
C17_AppendOnlyLedger ==
    [][ApplyStep
          => /\ last'.raised = "none"
                  => /\ getBindings(class_dict', last'.cls)
                          = Append(bindings(last'.cls),
                                   <<last'.magic_field, last'.delegate_type>>)
                     /\ forwardedNames(last'.cls)
                          \subseteq getForwardedNames(class_dict', last'.cls)
             /\ \A cls \in Types :
                   (decorated(cls) /\ (cls # last'.cls \/ last'.raised # "none"))
                      => /\ getBindings(class_dict', cls) = bindings(cls)
                         /\ getForwardedNames(class_dict', cls) = forwardedNames(cls)]_vars

(* The same pair applied twice to one host: it is recorded twice.          *)
C17_Witness ==
    /\ applied
    /\ Len(bindings(last.cls)) = 2
    /\ bindings(last.cls)[1] = bindings(last.cls)[2]
    /\ bindings(last.cls)[2] = <<last.magic_field, last.delegate_type>>
    /\ decorated(last.cls)

(* The names annotated in the body of cls itself.                          *)
own_annotations(cls) ==
    IF class_dict[cls][ANNOTATIONS_FIELD] = Absent THEN {}
    ELSE class_dict[cls][ANNOTATIONS_FIELD].keys

(* The names cls has in its own dictionary or annotates in its own body.   *)
declared_on(cls) ==
    {name \in Names : class_dict[cls][name] # Absent} \cup own_annotations(cls)

(***************************************************************************)
(* C18: classifier inclusion.  The names classified on D contain every     *)
(* member of D's own dictionary that is not excluded and every name that   *)
(* D's own body only annotates, and contain no name that D does not        *)
(* declare itself: a member declared only on an ancestor is not classified.*)
(***************************************************************************)
C18_ClassifierInclusion ==
    \A D \in Types :
       /\ \A name \in Names :
             (/\ class_dict[D][name] # Absent
              /\ ~_should_ignore_attribute_for_field(name, class_dict[D][name]))
                => name \in eligible(D)
       /\ \A name \in own_annotations(D) :
             (class_dict[D][name] = Absent /\ ~startswith_dunder(name))
                => name \in eligible(D)
       /\ eligible(D) \subseteq declared_on(D)

(* Neither class is an ancestor of the other.                              *)
unrelated(cls1, cls2) == ~issubclass(cls1, cls2) /\ ~issubclass(cls2, cls1)

(***************************************************************************)
(* C19: independent ledgers.  A call on H1 leaves the bindings, the        *)
(* forwarded names and the members of every host H2 unrelated to H1 as     *)
(* they were, and, unless interrupted, it commutes with every call on such *)
(* an H2: made before or after that call, the classes end up the same.     *)
(***************************************************************************)
C19_IndependentLedgers ==
    [][ApplyStep
          => \A H2 \in Types :
                unrelated(last'.cls, H2)
                  => /\ getBindings(class_dict', H2) = bindings(H2)
                     /\ getForwardedNames(class_dict', H2) = forwardedNames(H2)
                     /\ class_dict'[H2] = class_dict[H2]
                     /\ \A delegate_type \in ancestors(H2) \cup {H2},
                           magic_field \in MagicFields :
                           last'.raised = "TypeError" \/
                           decorator(class_dict', H2, delegate_type, magic_field).class_dict
                             = decorator(decorator(class_dict, H2, delegate_type,
                                                   magic_field).class_dict,
                                         last'.cls, last'.delegate_type,
                                         last'.magic_field).class_dict]_vars

(* H and K, unrelated hosts with the common ancestor D2, both decorated    *)
(* with D2 as delegate type.                                               *)
C19_Witness ==
    /\ applied
    /\ last.cls = "K"
    /\ unrelated("H", "K")
    /\ decorated("H")
    /\ decorated("K")
    /\ bindings("H")[1][2] = "D2"
    /\ bindings("K")[1][2] = "D2"
    /\ accessor_installed("H", "c")
    /\ accessor_installed("K", "c")

(* The outcome of reading obj.f.g.m after the step: the first lookup that  *)
(* raises ends the chain.                                                  *)
chained_read(obj, f, g, m) ==
    LET first == getattr(class_dict', instance_dict', obj, f)
    IN  IF first.raised # "none" THEN first
        ELSE IF first.value.kind # "object" THEN Raise("AttributeError")
        ELSE LET second == getattr(class_dict', instance_dict', first.value.id, g)
             IN  IF second.raised # "none" THEN second
                 ELSE IF second.value.kind # "object" THEN Raise("AttributeError")
                 ELSE getattr(class_dict', instance_dict', second.value.id, m)

(* obj holds in field f an instance of D, the delegate the binding names.  *)
holds_instance_of(obj, f, D) ==
    /\ instance_dict[obj][f].kind = "object"
    /\ issubclass(type(instance_dict[obj][f].id), D)

(***************************************************************************)
(* C20: transitive delegation.  When the delegate type D of a successful   *)
(* call on H carries, from a call on D itself, an accessor for m, through  *)
(* a field g, then after the call m is among the forwarded names of H and  *)
(* reading h.m on an instance h of H that holds an instance of D in f      *)
(* gives what h.f.g.m gives; D's ledger fields are not classified and not  *)
(* forwarded.                                                              *)
(***************************************************************************)
C20_TransitiveDelegation ==
    [][(ApplyStep /\ last'.raised = "none")
          => LET H == last'.cls
                 D == last'.delegate_type
                 f == last'.magic_field
             IN  /\ \A m \in Names :
                       class_dict[D][m].kind = "DelegatedProperty"
                         => /\ m \in getForwardedNames(class_dict', H)
                            /\ \A h \in Instances :
                                  (type(h) = H /\ holds_instance_of(h, f, D))
                                    => getattr(class_dict', instance_dict', h, m)
                                         = chained_read(h, f, class_dict'[D][m].magic_field,
                                                 class_dict'[D][m].delegated_member_name)
                 /\ decorated(D)
                      => /\ {DELEGATE_MEMBERS_FIELD, DELEGATE_TYPES_FIELD}
                               \cap eligible(D) = {}
                         /\ {DELEGATE_MEMBERS_FIELD, DELEGATE_TYPES_FIELD}
                               \cap getForwardedNames(class_dict', H) = {}]_vars

(* A step that is a read: last' holds its arguments and its outcome.       *)
ReadStep == last'.op = "getattr" /\ calls' = calls /\ writes' = writes

(* What reading the field f of h and then m of the object found there      *)
(* gives in the state after the step.                                      *)
reread(h, f, m) ==
    LET field == getattr(class_dict', instance_dict', h, f)
    IN  IF field.raised # "none" THEN field
        ELSE IF field.value.kind # "object" THEN Raise("AttributeError")
        ELSE getattr(class_dict', instance_dict', field.value.id, m)

(* Two instances of one type that hold the same object in the field f.     *)
share_delegate(h1, h2, f) ==
    /\ type(h1) = type(h2)
    /\ holds_object(h1, f)
    /\ instance_dict[h1][f] = instance_dict[h2][f]

(***************************************************************************)
(* C21: live, uncached reads.  An accessor holds its two names and no      *)
(* value; a read of h.m changes no class and no instance, the ledger       *)
(* included, and yields what reading h.f and then m yields; after an       *)
(* assignment to the member m of the object that h.f holds, or of another  *)
(* object to h.f, reading h.m gives the new value; and two instances whose *)
(* field f holds the same object read the same for every forwarded name.   *)
(***************************************************************************)
C21_LiveUncachedReads ==
    /\ [](\A h1 \in Instances, h2 \in Instances, m \in Names :
             LET accessor == resolved(type(h1), m)
             IN  (/\ accessor.kind = "DelegatedProperty"
                  /\ share_delegate(h1, h2, accessor.magic_field))
                    => /\ DOMAIN accessor = {"kind", "magic_field", "delegated_member_name"}
                       /\ read(h1, m) = read(h2, m))
    /\ [][/\ ReadStep
               => /\ class_dict' = class_dict
                  /\ instance_dict' = instance_dict
                  /\ LET accessor == resolved(type(last'.instance), last'.name)
                     IN  accessor.kind = "DelegatedProperty"
                           => [raised |-> last'.raised, value |-> last'.value]
                                = reread(last'.instance, accessor.magic_field,
                                         accessor.delegated_member_name)
          /\ (AssignStep /\ last'.raised = "none")
               => \A h \in Instances, m \in Names :
                     LET accessor == resolved(type(h), m)
                     IN  (/\ accessor.kind = "DelegatedProperty"
                          /\ holds_object(h, accessor.magic_field))
                            => /\ (/\ last'.instance = instance_dict[h][accessor.magic_field].id
                                   /\ last'.name = accessor.delegated_member_name)
                                     => getattr(class_dict', instance_dict', h, m)
                                          = Ok(last'.value)
                               /\ (/\ last'.instance = h
                                   /\ last'.name = accessor.magic_field
                                   /\ last'.value.kind = "object")
                                     => getattr(class_dict', instance_dict', h, m)
                                          = getattr(class_dict', instance_dict',
                                                    last'.value.id,
                                                    accessor.delegated_member_name)]_vars

====
